---------------------------- MODULE Spec2Model ----------------------------
(***************************************************************************)
(* A model of run.py: the Telegram bot that relays trading signals to a    *)
(* MetaTrader account through MetaApi.                                     *)
(*                                                                         *)
(* Updates are handled one at a time: main() registers every handler       *)
(* without run_async, so the dispatcher thread runs a handler to its end   *)
(* (asyncio.run blocks in it) before it takes the next update from the     *)
(* update queue.  What runs concurrently with a handler is only the        *)
(* arrival of new updates.                                                 *)
(*                                                                         *)
(* Text is a sequence of one-character strings.  Prices are integers       *)
(* (price points); lot sizes are integers in hundredths of a lot.          *)
(* A MetaApi call returns or raises; a reply to the chat always succeeds.  *)
(***************************************************************************)
EXTENDS Integers, Sequences, FiniteSets, TLC

(***************************************************************************)
(* Bounds of the model.                                                    *)
(***************************************************************************)
\* Updates that arrive in one behaviour.
MaxUpdates == 3
\* Updates that wait in the dispatcher's queue while a handler runs.
MaxQueue == 1
\* Words in the first line and lines after the first line of a composed
\* message.
MaxWords == 3
MaxTail == 5

(***************************************************************************)
(* Characters and strings.                                                 *)
(***************************************************************************)
UpperChars == <<"A","B","C","D","E","F","G","H","I","J","K","L","M",
                "N","O","P","Q","R","S","T","U","V","W","X","Y","Z">>
LowerChars == <<"a","b","c","d","e","f","g","h","i","j","k","l","m",
                "n","o","p","q","r","s","t","u","v","w","x","y","z">>
Digits == <<"0","1","2","3","4","5","6","7","8","9">>

\* str.lower() and str.upper(), character by character.
LowerChar(c) ==
    IF \E i \in 1..26 : UpperChars[i] = c
    THEN LowerChars[CHOOSE i \in 1..26 : UpperChars[i] = c]
    ELSE c
UpperChar(c) ==
    IF \E i \in 1..26 : LowerChars[i] = c
    THEN UpperChars[CHOOSE i \in 1..26 : LowerChars[i] = c]
    ELSE c
Lower(s) == [i \in 1..Len(s) |-> LowerChar(s[i])]
Upper(s) == [i \in 1..Len(s) |-> UpperChar(s[i])]

\* The whitespace of str.rstrip() and str.split() that is not a line break.
IsSpace(c) == c \in {" ", "\t"}
LF == "\n"

\* needle in hay
Contains(hay, needle) ==
    \E i \in 1..(Len(hay) - Len(needle) + 1) :
        SubSeq(hay, i, i + Len(needle) - 1) = needle

\* str.splitlines(): a line break ends a line; no line follows the last break.
RECURSIVE SplitLines(_)
SplitLines(s) ==
    IF s = <<>> THEN <<>>
    ELSE IF \E i \in 1..Len(s) : s[i] = LF
         THEN LET i == CHOOSE k \in 1..Len(s) :
                           s[k] = LF /\ \A j \in 1..(k-1) : s[j] # LF
              IN  <<SubSeq(s, 1, i - 1)>> \o SplitLines(SubSeq(s, i + 1, Len(s)))
         ELSE <<s>>

\* str.rstrip()
RStrip(s) ==
    LET keep == {i \in 1..Len(s) : ~IsSpace(s[i])}
        n    == IF keep = {} THEN 0 ELSE CHOOSE i \in keep : \A j \in keep : j <= i
    IN  SubSeq(s, 1, n)

\* str.split(): the maximal runs of non-whitespace characters.
RECURSIVE Split(_)
Split(s) ==
    IF s = <<>> THEN <<>>
    ELSE IF IsSpace(s[1]) THEN Split(Tail(s))
    ELSE LET stop == {i \in 1..Len(s) : IsSpace(s[i])}
             n    == IF stop = {} THEN Len(s) + 1
                     ELSE CHOOSE i \in stop : \A j \in stop : i <= j
         IN  <<SubSeq(s, 1, n - 1)>> \o Split(SubSeq(s, n, Len(s)))

\* float(token) succeeds: an optional sign and at least one digit.  (The
\* alphabet of the modelled signals has no '.', so a numeric token is an
\* integer literal; every other token makes float() raise ValueError.)
IsDigit(c) == \E i \in 1..10 : Digits[i] = c
DigitValue(c) == (CHOOSE i \in 1..10 : Digits[i] = c) - 1
IsUnsigned(t) == Len(t) >= 1 /\ \A i \in 1..Len(t) : IsDigit(t[i])
IsFloat(t) ==
    /\ Len(t) >= 1
    /\ IF t[1] \in {"-", "+"} THEN IsUnsigned(Tail(t)) ELSE IsUnsigned(t)
RECURSIVE UnsignedValue(_)
UnsignedValue(t) ==
    IF t = <<>> THEN 0
    ELSE 10 * UnsignedValue(SubSeq(t, 1, Len(t) - 1)) + DigitValue(t[Len(t)])
FloatValue(t) ==
    IF t[1] = "-" THEN 0 - UnsignedValue(Tail(t))
    ELSE IF t[1] = "+" THEN UnsignedValue(Tail(t))
    ELSE UnsignedValue(t)

(***************************************************************************)
(* Configuration (module level of run.py).                                 *)
(***************************************************************************)
\* INDEX, the default instrument: 'AUS200.cash'
INDEX == <<"A","U","S","2","0","0",".","c","a","s","h">>
\* SYMBOLS, the allowed symbols: ['FRA40.cash']
SYMBOLS == { <<"F","R","A","4","0",".","c","a","s","h">> }
\* RISK_FACTOR, in percent (the environment sets it; it has no default).
RISK_FACTOR == 5
\* The user allowed to trade.
TELEGRAM_USER == "owner"

(***************************************************************************)
(* The trade dictionary is a function from its present keys to values.     *)
(* trade['Entry'] is the string 'NOW' or a float.                          *)
(***************************************************************************)
NOW == [market |-> TRUE, price |-> 0]
Price(p) == [market |-> FALSE, price |-> p]
\* dict with d[k] = v set (added or overwritten)
Put(d, k, v) == (k :> v) @@ d
Has(d, k) == k \in DOMAIN d
EmptyDict == <<>>

OrderPhrases == <<
    <<"B","u","y"," ","L","i","m","i","t">>,
    <<"S","e","l","l"," ","L","i","m","i","t">>,
    <<"B","u","y"," ","S","t","o","p">>,
    <<"S","e","l","l"," ","S","t","o","p">>,
    <<"B","u","y">>,
    <<"S","e","l","l">> >>
OrderTypeNames == <<"Buy Limit", "Sell Limit", "Buy Stop", "Sell Stop", "Buy", "Sell">>

\* The last whitespace-separated token of line i of lines; its absence is the
\* IndexError of lines[i] or of [].split()[-1].
HasLastToken(lines, i) == i <= Len(lines) /\ Split(lines[i]) # <<>>
\* The first token of the line in place of the last.
LastToken_First(lines, i) == Split(lines[i])[1]
LastToken(lines, i) == Split(lines[i])[Len(Split(lines[i]))]
\* float((signal[i].split())[-1]) returns (Python lines are numbered from 0).
FloatLine(lines, i) == HasLastToken(lines, i) /\ IsFloat(LastToken(lines, i))
FloatOfLine(lines, i) == FloatValue(LastToken(lines, i))

\* The phrases of the if/elif chain with the Buy and Sell tests first.
OrderTypeIndex_MarketFirst(first) ==
    LET order == <<5, 6, 1, 2, 3, 4>>
        match == {n \in 1..6 : Contains(Lower(first), Lower(OrderPhrases[order[n]]))}
    IN  IF match = {} THEN 0
        ELSE order[CHOOSE m \in match : \A j \in match : m <= j]

\* The if/elif chain of lines 69-90 on the first line: the position in
\* OrderPhrases of the first phrase the line holds, 0 when it holds none.
OrderTypeIndex(first) ==
    LET match == {k \in 1..6 : Contains(Lower(first), Lower(OrderPhrases[k]))}
    IN  IF match = {} THEN 0
        ELSE CHOOSE m \in match : \A j \in match : m <= j

\* The symbol as the signal gives it, without the fallback to INDEX.
SymbolOf_NoFallback(signal) == Upper(LastToken(signal, 1))

\* lines 92-98: the upper-cased last token of the first line, or INDEX when
\* SYMBOLS does not hold it.
SymbolOf(signal) ==
    LET sym == Upper(LastToken(signal, 1))
    IN  IF sym \notin SYMBOLS THEN INDEX ELSE sym

\* ParseSignal(signal): [raised |-> an exception left the function,
\*                       trade |-> the dictionary returned otherwise, and the
\*                                 function's local dictionary as the
\*                                 exception found it].
ParseSignal(text) ==
    LET signal == [i \in 1..Len(SplitLines(text)) |-> RStrip(SplitLines(text)[i])]
        k      == OrderTypeIndex(signal[1])
        type   == OrderTypeNames[k]
        base   == ("OrderType" :> type) @@ ("Symbol" :> SymbolOf(signal))
        market == type \in {"Buy", "Sell"}
        Raise(t)  == [raised |-> TRUE, trade |-> t]
        Return(t) == [raised |-> FALSE, trade |-> Put(t, "RiskFactor", RISK_FACTOR)]
    IN  IF signal = <<>> THEN Raise(EmptyDict)             \* signal[0]: IndexError
        ELSE IF k = 0 THEN [raised |-> FALSE, trade |-> EmptyDict]
        ELSE IF market
        THEN \* trade['TP'] of a market order does not exist: KeyError
             IF Len(signal) > 4 THEN Raise(Put(base, "Entry", NOW))
             ELSE Return(Put(base, "Entry", NOW))
        ELSE IF ~FloatLine(signal, 2) THEN Raise(base)
        ELSE LET e == Put(base, "Entry", Price(FloatOfLine(signal, 2)))
             IN  IF ~FloatLine(signal, 3) THEN Raise(e)
        ELSE LET sl == Put(e, "StopLoss", FloatOfLine(signal, 3))
             IN  IF ~FloatLine(signal, 4) THEN Raise(sl)
        ELSE LET t == Put(sl, "TP", <<FloatOfLine(signal, 4)>>)
             IN  IF Len(signal) > 4
                 THEN IF FloatLine(signal, 5)
                      THEN Return([t EXCEPT !.TP = Append(@, FloatOfLine(signal, 5))])
                      ELSE Raise(t)
                 ELSE Return(t)

(***************************************************************************)
(* The text messages the model's users send.                               *)
(***************************************************************************)
\* buy
SIG_BUY ==
    <<"b","u","y">>
\* sell
SIG_SELL ==
    <<"s","e","l","l">>
\* Buy Limit FRA40.cash / Entry 100 / SL 90 / TP 120 / TP 130
SIG_BUY_LIMIT_2TP ==
    <<"B","u","y"," ","L","i","m","i","t"," ","F","R","A","4","0",".","c",
      "a","s","h","\n","E","n","t","r","y"," ","1","0","0","\n","S","L"," ",
      "9","0","\n","T","P"," ","1","2","0","\n","T","P"," ","1","3","0">>
\* Sell Stop X / Entry 100 / SL 0 / TP 80
SIG_SELL_STOP_SL0 ==
    <<"S","e","l","l"," ","S","t","o","p"," ","X","\n","E","n","t","r","y",
      " ","1","0","0","\n","S","L"," ","0","\n","T","P"," ","8","0">>
\* hello
SIG_HELLO ==
    <<"h","e","l","l","o">>
\* Buy Limit X / Entry now / SL 90 / TP 120
SIG_BAD_ENTRY ==
    <<"B","u","y"," ","L","i","m","i","t"," ","X","\n","E","n","t","r","y",
      " ","n","o","w","\n","S","L"," ","9","0","\n","T","P"," ","1","2",
      "0">>
\* exit buy
SIG_EXIT_BUY ==
    <<"e","x","i","t"," ","b","u","y">>
\* exit sell
SIG_EXIT_SELL ==
    <<"e","x","i","t"," ","s","e","l","l">>
\* The texts a user other than TELEGRAM_USER sends.
StrangerSignals == {SIG_EXIT_BUY}
Signals ==
    <<SIG_BUY, SIG_SELL, SIG_BUY_LIMIT_2TP, SIG_SELL_STOP_SL0, SIG_HELLO,
      SIG_BAD_ENTRY, SIG_EXIT_BUY, SIG_EXIT_SELL>>

(***************************************************************************)
(* Messages composed of words: a message is a sequence of lines, a line a  *)
(* sequence of words; its text joins the words of a line with one space    *)
(* and the lines with a line feed.                                          *)
(***************************************************************************)
Spell(word) ==
    CASE word = "Buy"        -> <<"B","u","y">>
      [] word = "sell"       -> <<"s","e","l","l">>
      [] word = "LIMIT"      -> <<"L","I","M","I","T">>
      [] word = "Stop"       -> <<"S","t","o","p">>
      [] word = "x"          -> <<"x">>
      [] word = "FRA40.cash" -> <<"F","R","A","4","0",".","c","a","s","h">>
      [] word = ""           -> <<>>
      [] word = "Entry"      -> <<"E","n","t","r","y">>
      [] word = "SL"         -> <<"S","L">>
      [] word = "TP"         -> <<"T","P">>
      [] word = "now"        -> <<"n","o","w">>
      [] word = "100"        -> <<"1","0","0">>
      [] word = "90"         -> <<"9","0">>
      [] word = "120"        -> <<"1","2","0">>
      [] word = "130"        -> <<"1","3","0">>

RECURSIVE JoinWords(_)
JoinWords(words) ==
    IF words = <<>> THEN <<>>
    ELSE IF Len(words) = 1 THEN Spell(words[1])
    ELSE Spell(words[1]) \o <<" ">> \o JoinWords(Tail(words))

RECURSIVE JoinLines(_)
JoinLines(lines) ==
    IF lines = <<>> THEN <<>>
    ELSE IF Len(lines) = 1 THEN JoinWords(lines[1])
    ELSE JoinWords(lines[1]) \o <<LF>> \o JoinLines(Tail(lines))

(***************************************************************************)
(* State.                                                                  *)
(***************************************************************************)
VARIABLES
    STOP_LOSS,      \* configured stop-loss distance
    TAKE_PROFIT,    \* configured take-profit distance
    LOT_SIZE,       \* configured lot size, in hundredths of a lot
    queue,          \* the dispatcher's update queue
    arrived,        \* updates received so far
    conv,           \* the ConversationHandler's state of each user
    user_data,      \* context.user_data['trade'] of each user
    pc,             \* where the dispatcher thread is
    cur,            \* the update being handled, or the last one handled
    trade,          \* the dictionary ConnectMetaTrader works on
    parsed,         \* PlaceTrade's local name `trade` is bound
    enterTrade,     \* ConnectMetaTrader's enterTrade argument
    initial_state,  \* account.state read after get_account
    balance,        \* account_information['balance']
    connection,     \* ConnectMetaTrader's local connection
    price,          \* ConnectMetaTrader's local price (the quote fetched)
    leg,            \* position of the order loop in trade['TP']
    calls,          \* MetaApi calls made while handling cur, in order
    orders,         \* order requests submitted while handling cur
    replies,        \* messages sent to the chat while handling cur
    failed,         \* the MetaApi call that raised while handling cur
    handlerError,   \* the exception that left the handler of the last update
    positions,      \* ExitTrades' positions, as get_positions returned them
    position,       \* position of ExitTrades' loop in positions
    closed_count,   \* ExitTrades' closed_count
    closes          \* close_position calls made while handling cur

config == <<STOP_LOSS, TAKE_PROFIT, LOT_SIZE>>
chat   == <<conv, user_data>>
locals == <<trade, parsed, enterTrade, initial_state, balance, connection, price, leg>>
logs   == <<calls, orders, replies, failed>>
exits  == <<positions, position, closed_count, closes>>
vars   == <<config, queue, arrived, chat, pc, cur, locals, logs, handlerError, exits>>

Users == {"owner", "other"}
\* The values the environment may give the three settings (its defaults are
\* 30.0, 200.0 and 6.0 lots).
StopLossChoices == {20, 30}
TakeProfitChoices == {100, 200}
LotSizeChoices == {600}
\* account.state as MetaApi reports it
AccountStates == {"DEPLOYED", "DEPLOYING", "UNDEPLOYED"}
\* The test of the initial state that takes only DEPLOYED for deployed.
deployed_states_OnlyDeployed == {"DEPLOYED"}
deployed_states == {"DEPLOYING", "DEPLOYED"}
\* The balances get_account_information may return.
Balances == {1000, 5000}
\* The quotes get_symbol_price may return.
Quotes == {[bid |-> 100, ask |-> 101], [bid |-> 250, ask |-> 252]}

None == [None |-> TRUE]
NoQuote == [bid |-> 0, ask |-> 0]
NoUpdate == [user |-> "", kind |-> "", text |-> 0, lines |-> <<>>,
             duringAcquisition |-> FALSE]
UpdateKinds == {"trade", "cancel", "text"}
\* The updates of the other user: the two that ask for a MetaApi request.
StrangerKinds == {"trade", "text"}

\* ConnectMetaTrader is acquiring its connection (lines 228-246).
AcquisitionSteps ==
    {"get_account", "deploy", "wait_connected", "connect", "wait_synchronized"}
\* ExitTrades is acquiring its connection (lines 431-448).
ExitAcquisitionSteps ==
    {"exit_get_account", "exit_deploy", "exit_wait_connected", "exit_connect",
     "exit_wait_synchronized"}
\* position['type'] as MetaApi reports it
BUY == "POSITION_TYPE_BUY"
SELL == "POSITION_TYPE_SELL"
\* The open positions get_positions may return.
PositionLists == {<<>>, <<BUY, SELL, BUY, SELL, BUY>>}
\* What close_position may do: return a result with an orderId, return one
\* without, raise.
CloseOutcomes == {"orderId", "no orderId", "raised"}

Init ==
    /\ STOP_LOSS \in StopLossChoices
    /\ TAKE_PROFIT \in TakeProfitChoices
    /\ LOT_SIZE \in LotSizeChoices
    \* the defaults, or both distances set
    /\ (STOP_LOSS = 30) <=> (TAKE_PROFIT = 200)
    /\ queue = <<>>
    /\ arrived = 0
    /\ conv = [u \in Users |-> "END"]
    /\ user_data = [u \in Users |-> None]
    /\ pc = "idle"
    /\ cur = NoUpdate
    /\ trade = EmptyDict
    /\ parsed = FALSE
    /\ enterTrade = FALSE
    /\ initial_state = ""
    /\ balance = 0
    /\ connection = "unbound"
    /\ price = NoQuote
    /\ leg = 0
    /\ calls = <<>>
    /\ orders = <<>>
    /\ replies = <<>>
    /\ failed = ""
    /\ handlerError = ""
    /\ positions = <<>>
    /\ position = 0
    /\ closed_count = 0
    /\ closes = <<>>

(***************************************************************************)
(* An update arrives (the webhook thread puts it on the update queue).     *)
(***************************************************************************)
Arrive ==
    /\ arrived < MaxUpdates
    /\ Len(queue) < MaxQueue
    /\ \E u \in Users, k \in UpdateKinds, i \in 1..Len(Signals) :
          /\ k # "text" => i = 1
          /\ u # TELEGRAM_USER =>
                /\ k \in StrangerKinds
                /\ k = "text" => Signals[i] \in StrangerSignals
          /\ queue' = Append(queue,
                 [user |-> u, kind |-> k, text |-> IF k = "text" THEN i ELSE 0,
                  lines |-> <<>>, duringAcquisition |->
                      pc \in AcquisitionSteps \cup ExitAcquisitionSteps])
    /\ arrived' = arrived + 1
    /\ UNCHANGED <<config, exits, chat, pc, cur, locals, logs, handlerError>>

\* The dispatcher takes the next update: the logs of the last one are dropped.
Take(replied) ==
    /\ pc = "idle"
    /\ queue # <<>>
    /\ cur' = Head(queue)
    /\ queue' = Tail(queue)
    /\ calls' = <<>>
    /\ orders' = <<>>
    /\ failed' = ""
    /\ replies' = replied
    /\ handlerError' = ""
    /\ positions' = <<>>
    /\ closed_count' = 0
    /\ closes' = <<>>
    /\ UNCHANGED <<config, arrived, position>>

\* The authorization check that lets every user pass.
Authorized_Anyone(u) == u \in Users
Authorized(u) == u = TELEGRAM_USER

\* update.effective_message.text: one of Signals, or the message the update
\* spells out in words.
TextOf(update) ==
    IF update.text > 0 THEN Signals[update.text] ELSE JoinLines(update.lines)

(***************************************************************************)
(* Handlers that make no MetaApi call.                                     *)
(***************************************************************************)
\* /trade: the conversation's entry point (allow_reentry: in any state).
Trade_Command ==
    /\ queue # <<>> /\ Head(queue).kind = "trade"
    /\ LET u == Head(queue).user
       IN  IF ~Authorized(u)
           THEN /\ Take(<<"not authorized">>)
                /\ conv' = [conv EXCEPT ![u] = "END"]
                /\ UNCHANGED user_data
           ELSE /\ Take(<<"enter trade">>)
                /\ user_data' = [user_data EXCEPT ![u] = None]
                /\ conv' = [conv EXCEPT ![u] = "TRADE"]
    /\ UNCHANGED <<pc, locals>>

\* /cancel: the conversation's fallback, in a conversation only.
cancel ==
    /\ queue # <<>> /\ Head(queue).kind = "cancel"
    /\ conv[Head(queue).user] # "END"
    /\ Take(<<"canceled">>)
    /\ user_data' = [user_data EXCEPT ![Head(queue).user] = None]
    /\ conv' = [conv EXCEPT ![Head(queue).user] = "END"]
    /\ UNCHANGED <<pc, locals>>

\* Filters.regex('^exit (buy|sell)$') of the exit handler's registration
ExitFilter(update) ==
    update.kind = "text" /\ TextOf(update) \in {SIG_EXIT_BUY, SIG_EXIT_SELL}

\* Any other text or command outside a conversation.
unknown_command ==
    /\ queue # <<>> /\ Head(queue).kind \in {"cancel", "text"}
    /\ conv[Head(queue).user] = "END"
    /\ ~ExitFilter(Head(queue))
    /\ Take(<<"username", "-4-", "TELEGRAM_USER",
              IF Authorized(Head(queue).user) THEN "unknown command"
              ELSE "not authorized">>)
    /\ UNCHANGED <<chat, pc, locals>>

(***************************************************************************)
(* PlaceTrade, up to its call of ConnectMetaTrader (lines 337-369).        *)
(***************************************************************************)
\* The except clause with ParseSignal's local dictionary stored for the user.
ParseError_StoresPartial(u, r) ==
    /\ Take(<<IF r.raised THEN "parse error: exception"
               ELSE "parse error: Invalid Trade">>)
    /\ user_data' = [user_data EXCEPT ![u] = r.trade]
    /\ UNCHANGED <<conv, pc, locals>>

\* The except clause returning ConversationHandler.END.
ParseError_EndsConversation(u, r) ==
    /\ Take(<<IF r.raised THEN "parse error: exception"
               ELSE "parse error: Invalid Trade">>)
    /\ conv' = [conv EXCEPT ![u] = "END"]
    /\ UNCHANGED <<user_data, pc, locals>>

\* except Exception (lines 356-366), of user u's message that ParseSignal
\* answered with r: the parse error is reported and the handler returns TRADE.
ParseError(u, r) ==
    /\ Take(<<IF r.raised THEN "parse error: exception"
               ELSE "parse error: Invalid Trade">>)
    /\ UNCHANGED <<chat, pc, locals>>

PlaceTrade ==
    /\ queue # <<>> /\ Head(queue).kind = "text"
    /\ conv[Head(queue).user] = "TRADE"
    /\ LET u == Head(queue).user
           r == ParseSignal(TextOf(Head(queue)))
       IN  IF user_data[u] = None /\ (r.raised \/ r.trade = EmptyDict)
           THEN ParseError(u, r)
           ELSE /\ Take(<<>>)
                /\ IF user_data[u] = None
                   THEN /\ user_data' = [user_data EXCEPT ![u] = r.trade]
                        /\ trade' = r.trade
                        /\ parsed' = TRUE
                   ELSE /\ trade' = user_data[u]
                        /\ parsed' = FALSE
                        /\ UNCHANGED user_data
                /\ enterTrade' = TRUE
                /\ pc' = "get_account"
                /\ UNCHANGED <<conv, initial_state, balance, connection, price, leg>>

(***************************************************************************)
(* ConnectMetaTrader (lines 213-333), one action per awaited call.         *)
(***************************************************************************)
\* The dictionary is the one user_data holds: both names see a change.
SetTrade(t) ==
    /\ trade' = t
    /\ user_data' = [user_data EXCEPT ![cur.user] = t]

\* The awaited call neither returns nor raises: the coroutine waits on.
ConnectionError_NeverRaised(call) ==
    /\ failed' = call
    /\ pc' = "waiting"
    /\ UNCHANGED <<replies, connection>>

\* except Exception (lines 329-333): the error is reported, the function
\* returns and its locals are gone.
ConnectionError(call) ==
    /\ failed' = call
    /\ replies' = Append(replies, "connection error")
    /\ connection' = "unbound"
    /\ pc' = "return"

\* lines 228-235
GetAccount ==
    /\ pc = "get_account"
    /\ calls' = Append(calls, "get_account")
    /\ \/ \E st \in AccountStates :
             /\ initial_state' = st
             /\ pc' = IF st \notin deployed_states THEN "deploy" ELSE "wait_connected"
             /\ UNCHANGED <<connection, replies, failed>>
       \/ ConnectionError("get_account") /\ UNCHANGED initial_state
    /\ UNCHANGED <<config, exits, queue, arrived, chat, cur, trade, parsed, enterTrade,
                   balance, price, leg, orders, handlerError>>

\* line 235
Deploy ==
    /\ pc = "deploy"
    /\ calls' = Append(calls, "deploy")
    /\ \/ pc' = "wait_connected" /\ UNCHANGED <<connection, replies, failed>>
       \/ ConnectionError("deploy")
    /\ UNCHANGED <<config, exits, queue, arrived, chat, cur, trade, parsed, enterTrade,
                   initial_state, balance, price, leg, orders, handlerError>>

\* line 238
WaitConnected ==
    /\ pc = "wait_connected"
    /\ calls' = Append(calls, "wait_connected")
    /\ \/ pc' = "connect" /\ UNCHANGED <<connection, replies, failed>>
       \/ ConnectionError("wait_connected")
    /\ UNCHANGED <<config, exits, queue, arrived, chat, cur, trade, parsed, enterTrade,
                   initial_state, balance, price, leg, orders, handlerError>>

\* lines 241-242
Connect ==
    /\ pc = "connect"
    /\ calls' = Append(calls, "connect")
    /\ \/ /\ connection' = "connected"
          /\ pc' = "wait_synchronized"
          /\ UNCHANGED <<replies, failed>>
       \/ ConnectionError("connect")
    /\ UNCHANGED <<config, exits, queue, arrived, chat, cur, trade, parsed, enterTrade,
                   initial_state, balance, price, leg, orders, handlerError>>

\* line 246
WaitSynchronized ==
    /\ pc = "wait_synchronized"
    /\ calls' = Append(calls, "wait_synchronized")
    /\ \/ /\ connection' = "synchronized"
          /\ pc' = "get_account_information"
          /\ UNCHANGED <<replies, failed>>
       \/ ConnectionError("wait_synchronized")
    /\ UNCHANGED <<config, exits, queue, arrived, chat, cur, trade, parsed, enterTrade,
                   initial_state, balance, price, leg, orders, handlerError>>

\* abs(round((trade['StopLoss'] - trade['Entry']) / multiplier)) of line 144,
\* with a multiplier of one.
stopLossPips(t) ==
    IF t.StopLoss >= t.Entry.price THEN t.StopLoss - t.Entry.price
    ELSE t.Entry.price - t.StopLoss

\* The position size computed from the risk: the balance times the risk
\* factor over the stop-loss distance.
GetTradeInformation_RiskSized(t, account_balance) ==
    Put(t, "PositionSize", (account_balance * t.RiskFactor) \div (stopLossPips(t) + 1))
\* GetTradeInformation (lines 120-163): the position size is the configured
\* lot size; the pips it computes from the entry, the stop loss and the
\* take profits, and the balance, go only into the table it sends.
GetTradeInformation(t, account_balance) == Put(t, "PositionSize", LOT_SIZE)

\* The preview followed by the order loop whatever enterTrade is.
Preview_AlwaysEnters(t, account_balance, sent) ==
    /\ SetTrade(GetTradeInformation(t, account_balance))
    /\ replies' = Append(sent, "preview")
    /\ pc' = "create_order" /\ leg' = 1 /\ UNCHANGED connection

\* lines 278-282: the preview, then the order loop if the trade is entered.
Preview(t, account_balance, sent) ==
    /\ SetTrade(GetTradeInformation(t, account_balance))
    /\ replies' = Append(sent, "preview")
    /\ IF enterTrade
       THEN pc' = "create_order" /\ leg' = 1 /\ UNCHANGED connection
       ELSE pc' = "return" /\ leg' = 0 /\ connection' = "unbound"

\* GetAccountInformation with the failure of the fetch swallowed: the request
\* goes on to the preview.
GetAccountInformation_ErrorSwallowed ==
    /\ pc = "get_account_information"
    /\ calls' = Append(calls, "get_account_information")
    /\ \/ /\ IF trade.Entry = NOW
             THEN /\ replies' = Append(replies, "connected")
                  /\ pc' = "get_symbol_price"
                  /\ UNCHANGED <<trade, user_data, leg, connection>>
             ELSE Preview(trade, balance, Append(replies, "connected"))
          /\ UNCHANGED failed
       \/ /\ failed' = "get_account_information"
          /\ IF trade.Entry = NOW
             THEN /\ replies' = Append(replies, "connection error")
                  /\ pc' = "get_symbol_price"
                  /\ UNCHANGED <<trade, user_data, leg, connection>>
             ELSE Preview(trade, balance, Append(replies, "connection error"))
    /\ UNCHANGED <<config, exits, queue, arrived, conv, cur, parsed, enterTrade,
                   initial_state, balance, price, orders, handlerError>>

\* lines 249-255
GetAccountInformation ==
    /\ pc = "get_account_information"
    /\ calls' = Append(calls, "get_account_information")
    /\ \/ \E account_balance \in Balances :
             /\ balance' = account_balance
             /\ IF trade.Entry = NOW
                THEN /\ replies' = Append(replies, "connected")
                     /\ pc' = "get_symbol_price"
                     /\ UNCHANGED <<trade, user_data, leg, connection>>
                ELSE Preview(trade, account_balance, Append(replies, "connected"))
             /\ UNCHANGED failed
       \/ /\ ConnectionError("get_account_information")
          /\ UNCHANGED <<trade, user_data, leg, balance>>
    /\ UNCHANGED <<config, exits, queue, arrived, conv, cur, parsed, enterTrade,
                   initial_state, price, orders, handlerError>>

\* lines 259-276: the market entry, stop loss and take profit from the quote.
Resolve(t, quote) ==
    IF t.OrderType = "Buy"
    THEN Put(Put(Put(t, "Entry", Price(quote.bid)),
                 "StopLoss", quote.bid - STOP_LOSS),
             "TP", <<quote.bid + 200>>)
    ELSE IF t.OrderType = "Sell"
    THEN Put(Put(Put(t, "Entry", Price(quote.ask)),
                 "StopLoss", quote.ask + STOP_LOSS),
             "TP", <<quote.bid - 200>>)
    ELSE t

\* GetSymbolPrice with a failed fetch replaced by a quote of zero.
GetSymbolPrice_DefaultQuote ==
    /\ pc = "get_symbol_price"
    /\ calls' = Append(calls, "get_symbol_price")
    /\ \/ \E quote \in Quotes :
             /\ price' = quote
             /\ Preview(Resolve(trade, quote), balance, replies)
             /\ UNCHANGED failed
       \/ /\ failed' = "get_symbol_price"
          /\ price' = NoQuote
          /\ Preview(Resolve(trade, NoQuote), balance, replies)
    /\ UNCHANGED <<config, exits, queue, arrived, conv, cur, parsed, enterTrade,
                   initial_state, balance, orders, handlerError>>

\* lines 255-279
GetSymbolPrice ==
    /\ pc = "get_symbol_price"
    /\ calls' = Append(calls, "get_symbol_price")
    /\ \/ \E quote \in Quotes :
             /\ price' = quote
             /\ Preview(Resolve(trade, quote), balance, replies)
             /\ UNCHANGED failed
       \/ ConnectionError("get_symbol_price") /\ UNCHANGED <<trade, user_data, price, leg>>
    /\ UNCHANGED <<config, exits, queue, arrived, conv, cur, parsed, enterTrade,
                   initial_state, balance, orders, handlerError>>

\* The call the order loop makes for each order type (lines 289-316).
OrderCall(type) ==
    CASE type = "Buy"        -> "create_market_buy_order"
      [] type = "Buy Limit"  -> "create_limit_buy_order"
      [] type = "Buy Stop"   -> "create_stop_buy_order"
      [] type = "Sell"       -> "create_market_sell_order"
      [] type = "Sell Limit" -> "create_limit_sell_order"
      [] type = "Sell Stop"  -> "create_stop_sell_order"

\* The request the loop submits for take profit i of t (lines 291-316);
\* a pending order also carries the entry as its open price.
OrderRequest(t, i) ==
    [call       |-> OrderCall(t.OrderType),
     symbol     |-> t.Symbol,
     volume     |-> t.PositionSize,
     openPrice  |-> IF t.OrderType \in {"Buy", "Sell"} THEN <<>> ELSE <<t.Entry.price>>,
     stopLoss   |-> t.StopLoss,
     takeProfit |-> t.TP[i]]

\* One pass of the order loop (lines 287-327).  An exception of the call
\* leaves the loop: except Exception reports it and the function returns.
CreateOrder ==
    /\ pc = "create_order"
    /\ calls' = Append(calls, OrderCall(trade.OrderType))
    /\ \/ /\ orders' = Append(orders, [request |-> OrderRequest(trade, leg), ok |-> TRUE])
          /\ IF leg < Len(trade.TP)
             THEN /\ leg' = leg + 1
                  /\ UNCHANGED <<pc, replies, connection>>
             ELSE /\ replies' = Append(replies, "trade entered")
                  /\ pc' = "return"
                  /\ connection' = "unbound"
                  /\ UNCHANGED leg
       \/ /\ orders' = Append(orders, [request |-> OrderRequest(trade, leg), ok |-> FALSE])
          /\ replies' = Append(replies, "trade error")
          /\ pc' = "return"
          /\ connection' = "unbound"
          /\ UNCHANGED leg
    /\ UNCHANGED <<config, exits, queue, arrived, chat, cur, trade, parsed, enterTrade,
                   initial_state, balance, price, failed, handlerError>>

(***************************************************************************)
(* PlaceTrade after ConnectMetaTrader returned (lines 371-376).            *)
(***************************************************************************)
\* line 374 reads trade['Symbol'], trade['PositionSize'], trade['StopLoss']
\* of the handler's local trade.
LogLineError ==
    IF ~parsed THEN "UnboundLocalError"
    ELSE IF {"Symbol", "PositionSize", "StopLoss"} \subseteq DOMAIN trade THEN ""
    ELSE "KeyError"

\* PlaceTrade returning without the reset of line 372.
PlaceTradeReturn_KeepsTrade ==
    /\ pc = "return"
    /\ UNCHANGED user_data
    /\ handlerError' = LogLineError
    \* an exception leaves the conversation's state as it was
    /\ conv' = IF LogLineError = "" THEN [conv EXCEPT ![cur.user] = "END"] ELSE conv
    /\ pc' = "idle"
    /\ trade' = EmptyDict
    /\ parsed' = FALSE
    /\ enterTrade' = FALSE
    /\ initial_state' = ""
    /\ balance' = 0
    /\ price' = NoQuote
    /\ leg' = 0
    /\ UNCHANGED <<config, exits, queue, arrived, cur, connection, logs>>

PlaceTradeReturn ==
    /\ pc = "return"
    /\ user_data' = [user_data EXCEPT ![cur.user] = None]
    /\ handlerError' = LogLineError
    \* an exception leaves the conversation's state as it was
    /\ conv' = IF LogLineError = "" THEN [conv EXCEPT ![cur.user] = "END"] ELSE conv
    /\ pc' = "idle"
    /\ trade' = EmptyDict
    /\ parsed' = FALSE
    /\ enterTrade' = FALSE
    /\ initial_state' = ""
    /\ balance' = 0
    /\ price' = NoQuote
    /\ leg' = 0
    /\ UNCHANGED <<config, exits, queue, arrived, cur, connection, logs>>

(***************************************************************************)
(* exit_trade_handler (lines 602-634) and ExitTrades (lines 418-512), one  *)
(* action per awaited call.                                                *)
(***************************************************************************)
\* An exit command outside a conversation (in one, the conversation's text
\* handler takes it).
exit_trade_handler ==
    /\ queue # <<>> /\ ExitFilter(Head(queue))
    /\ conv[Head(queue).user] = "END"
    /\ LET message == Lower(TextOf(Head(queue)))
       IN  IF ~Authorized(Head(queue).user)
           THEN Take(<<"not authorized">>) /\ UNCHANGED pc
           ELSE IF message \notin {SIG_EXIT_BUY, SIG_EXIT_SELL}
           THEN Take(<<"invalid exit command">>) /\ UNCHANGED pc
           ELSE Take(<<"processing">>) /\ pc' = "exit_get_account"
    /\ UNCHANGED <<chat, locals>>

\* ExitTrades' argument exit_type
exit_type == Lower(TextOf(cur))

\* ExitTrades returns, and exit_trade_handler with it: the locals are gone.
ExitReturn ==
    /\ pc' = "idle"
    /\ initial_state' = ""
    /\ connection' = "unbound"
    /\ position' = 0

\* except Exception (lines 498-512)
ExitConnectionError(call) ==
    /\ failed' = call
    /\ replies' = Append(replies, "connection error")
    /\ ExitReturn

\* lines 431-437
ExitGetAccount ==
    /\ pc = "exit_get_account"
    /\ calls' = Append(calls, "get_account")
    /\ \/ \E st \in AccountStates :
             /\ initial_state' = st
             /\ pc' = IF st \notin deployed_states THEN "exit_deploy"
                      ELSE "exit_wait_connected"
             /\ UNCHANGED <<connection, position, replies, failed>>
       \/ ExitConnectionError("get_account")
    /\ UNCHANGED <<config, queue, arrived, chat, cur, trade, parsed, enterTrade, balance,
                   price, leg, orders, handlerError, positions, closed_count,
                   closes>>

\* line 437
ExitDeploy ==
    /\ pc = "exit_deploy"
    /\ calls' = Append(calls, "deploy")
    /\ \/ /\ pc' = "exit_wait_connected"
          /\ UNCHANGED <<initial_state, connection, position, replies, failed>>
       \/ ExitConnectionError("deploy")
    /\ UNCHANGED <<config, queue, arrived, chat, cur, trade, parsed, enterTrade, balance,
                   price, leg, orders, handlerError, positions, closed_count,
                   closes>>

\* line 440
ExitWaitConnected ==
    /\ pc = "exit_wait_connected"
    /\ calls' = Append(calls, "wait_connected")
    /\ \/ /\ pc' = "exit_connect"
          /\ UNCHANGED <<initial_state, connection, position, replies, failed>>
       \/ ExitConnectionError("wait_connected")
    /\ UNCHANGED <<config, queue, arrived, chat, cur, trade, parsed, enterTrade, balance,
                   price, leg, orders, handlerError, positions, closed_count,
                   closes>>

\* lines 443-444
ExitConnect ==
    /\ pc = "exit_connect"
    /\ calls' = Append(calls, "connect")
    /\ \/ /\ connection' = "connected"
          /\ pc' = "exit_wait_synchronized"
          /\ UNCHANGED <<initial_state, position, replies, failed>>
       \/ ExitConnectionError("connect")
    /\ UNCHANGED <<config, queue, arrived, chat, cur, trade, parsed, enterTrade, balance,
                   price, leg, orders, handlerError, positions, closed_count,
                   closes>>

\* line 448
ExitWaitSynchronized ==
    /\ pc = "exit_wait_synchronized"
    /\ calls' = Append(calls, "wait_synchronized")
    /\ \/ /\ connection' = "synchronized"
          /\ pc' = "get_positions"
          /\ UNCHANGED <<initial_state, position, replies, failed>>
       \/ ExitConnectionError("wait_synchronized")
    /\ UNCHANGED <<config, queue, arrived, chat, cur, trade, parsed, enterTrade, balance,
                   price, leg, orders, handlerError, positions, closed_count,
                   closes>>

\* Position i of ps is of the type exit_type asks to exit, ignoring the side.
should_close_AnySide(ps, i) == ps[i] \in {BUY, SELL}

\* lines 460-461
should_close(ps, i) ==
    \/ exit_type = SIG_EXIT_BUY /\ ps[i] = BUY
    \/ exit_type = SIG_EXIT_SELL /\ ps[i] = SELL

\* The for loop of line 457 from position i on: the next position that is to
\* be closed, 0 when the loop ends.
NextToClose(ps, i) ==
    LET rest == {j \in (i + 1)..Len(ps) : should_close(ps, j)}
    IN  IF rest = {} THEN 0 ELSE CHOOSE j \in rest : \A k \in rest : j <= k

\* lines 493-496, with closed_count at n
Summary(n) == IF n > 0 THEN "closed" ELSE "none found to close"

\* lines 451-457
GetPositions ==
    /\ pc = "get_positions"
    /\ calls' = Append(calls, "get_positions")
    /\ \/ \E ps \in PositionLists :
             /\ positions' = ps
             /\ closed_count' = 0
             /\ IF NextToClose(ps, 0) = 0
                THEN /\ replies' = Append(replies, Summary(0))
                     /\ ExitReturn
                ELSE /\ position' = NextToClose(ps, 0)
                     /\ pc' = "close_position"
                     /\ UNCHANGED <<initial_state, connection, replies>>
             /\ UNCHANGED failed
       \/ ExitConnectionError("get_positions") /\ UNCHANGED <<positions, closed_count>>
    /\ UNCHANGED <<config, queue, arrived, chat, cur, trade, parsed, enterTrade, balance,
                   price, leg, orders, handlerError, closes>>

\* The try block of lines 465-471 that counts every close_position that
\* returned.
Closed_AnyResult(outcome) == outcome # "raised"

\* lines 466-468: closed_count grows when the result holds an orderId
Closed(outcome) == outcome = "orderId"

\* lines 463-496: one close_position, then the loop up to the next one or
\* to the summary
ClosePosition ==
    /\ pc = "close_position"
    /\ calls' = Append(calls, "close_position")
    /\ \E outcome \in CloseOutcomes :
          LET count == IF Closed(outcome) THEN closed_count + 1 ELSE closed_count
              said  == IF outcome = "raised"
                       THEN Append(replies, "error closing position")
                       ELSE replies
          IN  /\ closes' = Append(closes, [id |-> position, type |-> positions[position],
                                           outcome |-> outcome])
              /\ closed_count' = count
              /\ IF NextToClose(positions, position) = 0
                 THEN /\ replies' = Append(said, Summary(count))
                      /\ ExitReturn
                 ELSE /\ position' = NextToClose(positions, position)
                      /\ replies' = said
                      /\ UNCHANGED <<pc, initial_state, connection>>
    /\ UNCHANGED <<config, queue, arrived, chat, cur, trade, parsed, enterTrade, balance,
                   price, leg, orders, failed, handlerError, positions>>

\* The dispatcher thread takes the next update and enters its handler.
Dispatch ==
    \/ Trade_Command
    \/ cancel
    \/ unknown_command
    \/ PlaceTrade
    \/ exit_trade_handler

\* The next step of the coroutine that asyncio.run is running.
Running ==
    \/ GetAccount
    \/ Deploy
    \/ WaitConnected
    \/ Connect
    \/ WaitSynchronized
    \/ GetAccountInformation
    \/ GetSymbolPrice
    \/ CreateOrder
    \/ PlaceTradeReturn
    \/ ExitGetAccount
    \/ ExitDeploy
    \/ ExitWaitConnected
    \/ ExitConnect
    \/ ExitWaitSynchronized
    \/ GetPositions
    \/ ClosePosition

Next ==
    \/ Arrive
    \/ Dispatch
    \/ Running

Spec == Init /\ [][Next]_vars

(***************************************************************************)
(* One request from its update to its end: the dispatcher is idle, the     *)
(* owner's conversation is over or awaits a signal, and one update is      *)
(* queued.                                                                 *)
(***************************************************************************)
RequestInit ==
    /\ STOP_LOSS \in StopLossChoices
    /\ TAKE_PROFIT \in TakeProfitChoices
    /\ LOT_SIZE \in LotSizeChoices
    /\ (STOP_LOSS = 30) <=> (TAKE_PROFIT = 200)
    /\ \E u \in Users, k \in UpdateKinds, i \in 1..Len(Signals) :
          /\ k # "text" => i = 1
          /\ u # TELEGRAM_USER =>
                /\ k \in StrangerKinds
                /\ k = "text" => Signals[i] \in StrangerSignals
          /\ queue = <<[user |-> u, kind |-> k, text |-> IF k = "text" THEN i ELSE 0,
                        lines |-> <<>>, duringAcquisition |-> FALSE]>>
    /\ arrived = 1
    /\ \E state \in {"END", "TRADE"} :
          conv = [u \in Users |-> IF u = TELEGRAM_USER THEN state ELSE "END"]
    /\ user_data = [u \in Users |-> None]
    /\ pc = "idle"
    /\ cur = NoUpdate
    /\ trade = EmptyDict
    /\ parsed = FALSE
    /\ enterTrade = FALSE
    /\ initial_state = ""
    /\ balance = 0
    /\ connection = "unbound"
    /\ price = NoQuote
    /\ leg = 0
    /\ calls = <<>>
    /\ orders = <<>>
    /\ replies = <<>>
    /\ failed = ""
    /\ handlerError = ""
    /\ positions = <<>>
    /\ position = 0
    /\ closed_count = 0
    /\ closes = <<>>

RequestNext ==
    \/ Dispatch
    \/ Running

\* asyncio.run runs the coroutine of the handler to its end, every awaited
\* MetaApi call returning or raising in time (wait_connected and
\* wait_synchronized are given no timeout and raise at the SDK's own).
FairSpec == RequestInit /\ [][RequestNext]_vars /\ WF_vars(Running)

(***************************************************************************)
(* ParseSignal on bounded inputs: the owner's conversation awaits a signal *)
(* (after /trade), the message on the queue is any of ParseInputs, and     *)
(* PlaceTrade handles it.                                                  *)
(***************************************************************************)
SeqsUpTo(S, n) == UNION {[1..k -> S] : k \in 0..n}

FirstWords == {"Buy", "sell", "LIMIT", "Stop", "x", "FRA40.cash", ""}
FirstLines == SeqsUpTo(FirstWords, MaxWords)
SampleFirstLines == {<<"Buy", "LIMIT", "x">>, <<"sell">>}

TailLines ==
    {<<"Entry", "100">>, <<"SL", "90">>, <<"TP", "120">>, <<"TP", "now">>, <<>>}
AllTails == SeqsUpTo(TailLines, MaxTail)
\* Entry 100 / SL 90 / TP 120 / TP 130 / TP 120 / TP 130 ...
LabelledTail(n) ==
    [i \in 1..n |-> IF i = 1 THEN <<"Entry", "100">>
                    ELSE IF i = 2 THEN <<"SL", "90">>
                    ELSE IF i % 2 = 1 THEN <<"TP", "120">>
                    ELSE <<"TP", "130">>]
SampleTails == {LabelledTail(n) : n \in 0..MaxTail}

ParseInputs ==
    {<<>>}
    \cup {<<f>> \o t : f \in FirstLines, t \in SampleTails}
    \cup {<<f>> \o t : f \in SampleFirstLines, t \in AllTails}

ParseInit ==
    /\ STOP_LOSS = 30
    /\ TAKE_PROFIT = 200
    /\ LOT_SIZE = 600
    /\ \E l \in ParseInputs :
          queue = <<[user |-> TELEGRAM_USER, kind |-> "text", text |-> 0,
                     lines |-> l, duringAcquisition |-> FALSE]>>
    /\ arrived = 1
    /\ conv = [u \in Users |-> IF u = TELEGRAM_USER THEN "TRADE" ELSE "END"]
    /\ user_data = [u \in Users |-> None]
    /\ pc = "idle"
    /\ cur = NoUpdate
    /\ trade = EmptyDict
    /\ parsed = FALSE
    /\ enterTrade = FALSE
    /\ initial_state = ""
    /\ balance = 0
    /\ connection = "unbound"
    /\ price = NoQuote
    /\ leg = 0
    /\ calls = <<>>
    /\ orders = <<>>
    /\ replies = <<>>
    /\ failed = ""
    /\ handlerError = ""
    /\ positions = <<>>
    /\ position = 0
    /\ closed_count = 0
    /\ closes = <<>>

ParseNext == PlaceTrade

ParseSpec == ParseInit /\ [][ParseNext]_vars

(***************************************************************************)
(* ConnectMetaTrader called on a parsed signal of the owner with either    *)
(* value of enterTrade: True as PlaceTrade calls it (line 369), False as   *)
(* CalculateTrade does (line 411).                                         *)
(***************************************************************************)
ParsedSignals ==
    {i \in 1..Len(Signals) :
        ~ParseSignal(Signals[i]).raised /\ ParseSignal(Signals[i]).trade # EmptyDict}

ConnectInit ==
    /\ STOP_LOSS \in StopLossChoices
    /\ TAKE_PROFIT \in TakeProfitChoices
    /\ LOT_SIZE \in LotSizeChoices
    /\ (STOP_LOSS = 30) <=> (TAKE_PROFIT = 200)
    /\ enterTrade \in BOOLEAN
    /\ \E i \in ParsedSignals :
          /\ cur = [user |-> TELEGRAM_USER, kind |-> "text", text |-> i,
                    lines |-> <<>>, duringAcquisition |-> FALSE]
          /\ trade = ParseSignal(Signals[i]).trade
          /\ user_data = [u \in Users |->
                            IF u = TELEGRAM_USER THEN ParseSignal(Signals[i]).trade
                            ELSE None]
    /\ conv = [u \in Users |->
                 IF u # TELEGRAM_USER THEN "END"
                 ELSE IF enterTrade THEN "TRADE" ELSE "CALCULATE"]
    /\ queue = <<>>
    /\ arrived = 1
    /\ pc = "get_account"
    /\ parsed = TRUE
    /\ initial_state = ""
    /\ balance = 0
    /\ connection = "unbound"
    /\ price = NoQuote
    /\ leg = 0
    /\ calls = <<>>
    /\ orders = <<>>
    \* the reply of line 400; the one of PlaceTrade is a comment (line 354)
    /\ replies = IF enterTrade THEN <<>> ELSE <<"parsed">>
    /\ failed = ""
    /\ handlerError = ""
    /\ positions = <<>>
    /\ position = 0
    /\ closed_count = 0
    /\ closes = <<>>

ConnectMetaTrader ==
    \/ GetAccount
    \/ Deploy
    \/ WaitConnected
    \/ Connect
    \/ WaitSynchronized
    \/ GetAccountInformation
    \/ GetSymbolPrice
    \/ CreateOrder

ConnectSpec == ConnectInit /\ [][ConnectMetaTrader]_vars

(***************************************************************************)
(* Properties.                                                             *)
(***************************************************************************)
Range(f) == {f[i] : i \in DOMAIN f}
\* ConnectMetaTrader has returned to the handler of cur.
Returned == pc = "return"
\* The order loop of the request ran all its passes without an exception.
Entered == Returned /\ "trade entered" \in Range(replies)
\* The order loop of the request was reached.
LoopReached == Returned /\ enterTrade /\ "preview" \in Range(replies)

\* C1: a trade with N take profits that is executed submits exactly N order
\* requests, one per take profit and in their order, each with the trade's
\* stop loss and its own take profit, and each of size PositionSize / N.
C1_OneSplitRequestPerTakeProfit ==
    Entered =>
        /\ Len(orders) = Len(trade.TP)
        /\ \A i \in 1..Len(orders) :
              /\ orders[i].request.takeProfit = trade.TP[i]
              /\ orders[i].request.stopLoss = trade.StopLoss
              /\ orders[i].request.volume * Len(trade.TP) = trade.PositionSize

\* C2: every leg of a trade is submitted whatever happens to its siblings:
\* once the order loop is over, there is one request per take profit.
C2_EveryLegSubmitted ==
    LoopReached => Len(orders) = Len(trade.TP)

\* C3: when one leg was accepted and another failed, the caller is told of
\* both: the success and the failure are both among the replies.
C3_SuccessAndFailureBothReported ==
    (/\ Returned
     /\ \E i \in 1..Len(orders) : orders[i].ok
     /\ \E i \in 1..Len(orders) : ~orders[i].ok)
    => {"trade entered", "trade error"} \subseteq Range(replies)

\* C4: no order request is submitted for a trade that breaks the validation
\* constraints: every request has a size of 0.01 to 50 lots, a stop loss
\* above 0 and a take profit above 0.
C4_NoOrderForInvalidTrade ==
    \A i \in 1..Len(orders) :
        /\ 1 <= orders[i].request.volume
        /\ orders[i].request.volume <= 5000
        /\ orders[i].request.stopLoss > 0
        /\ orders[i].request.takeProfit > 0

\* The calls of the connection steps: the acquisition and the fetch of the
\* account information.
ConnectionCalls == AcquisitionSteps \cup {"get_account_information"}

\* C5: when a connection step of a request fails, the request is over: the
\* failed call is its last MetaApi call, the error is reported, there is no
\* preview and no order, and the connection is dropped; no connection is
\* held between requests, so that a request starts its acquisition with
\* none and has made no call yet.
C5_ConnectionFailureAbortsRequest ==
    /\ failed \in ConnectionCalls =>
          /\ pc \in {"return", "idle"}
          /\ calls[Len(calls)] = failed
          /\ "connection error" \in Range(replies)
          /\ "preview" \notin Range(replies)
          /\ orders = <<>>
          /\ connection = "unbound"
    /\ pc \in {"idle", "get_account"} => connection = "unbound"
    /\ pc = "get_account" => calls = <<>>
\* The fetch of the account information failed on a synchronized connection.
C5_Witness ==
    /\ Returned
    /\ failed = "get_account_information"
    /\ "wait_synchronized" \in Range(calls)

\* C6: a request that arrived while an acquisition was in flight starts no
\* acquisition of its own (it shares the result of the one in flight).
C6_NoIndependentAcquisition ==
    ~(pc \in AcquisitionSteps /\ cur.duringAcquisition)

\* The request resolved a market order of the given type from a quote.
Resolved(type) ==
    /\ pc \in {"create_order", "return"}
    /\ "get_symbol_price" \in Range(calls)
    /\ failed = ""
    /\ trade.OrderType = type

\* C8: a market Buy is resolved to entry = bid, stop loss = bid minus the
\* configured stop-loss distance, take profits = [bid plus the configured
\* take-profit distance].
C8_MarketBuyResolution ==
    Resolved("Buy") =>
        /\ trade.Entry = Price(price.bid)
        /\ trade.StopLoss = price.bid - STOP_LOSS
        /\ trade.TP = <<price.bid + TAKE_PROFIT>>

\* C9: a market Sell is resolved to entry = ask, stop loss = ask plus the
\* configured stop-loss distance, take profits = [bid minus the configured
\* take-profit distance].
C9_MarketSellResolution ==
    Resolved("Sell") =>
        /\ trade.Entry = Price(price.ask)
        /\ trade.StopLoss = price.ask + STOP_LOSS
        /\ trade.TP = <<price.bid - TAKE_PROFIT>>

\* C10: when the quote of a market order cannot be fetched, the request ends
\* with a reported connection error: the trade keeps its entry NOW and gets
\* no stop loss and no take profit, there is no preview and no order.
C10_NoQuoteNoPrice ==
    failed = "get_symbol_price" =>
        /\ pc \in {"return", "idle"}
        /\ calls[Len(calls)] = "get_symbol_price"
        /\ "connection error" \in Range(replies)
        /\ "preview" \notin Range(replies)
        /\ orders = <<>>
        /\ Returned => /\ trade.Entry = NOW
                       /\ ~Has(trade, "StopLoss")
                       /\ ~Has(trade, "TP")
                       /\ ~Has(trade, "PositionSize")
\* The quote of a market order could not be fetched.
C10_Witness ==
    /\ Returned
    /\ failed = "get_symbol_price"
    /\ trade.OrderType \in {"Buy", "Sell"}

(***************************************************************************)
(* Properties of ParseSignal, read off the state PlaceTrade leaves: the    *)
(* dictionary it stores is the one ParseSignal returned, and its reply     *)
(* tells an empty dictionary from an exception.                            *)
(***************************************************************************)
Lines(update) == IF update.text > 0 THEN SplitLines(Signals[update.text])
                 ELSE [i \in 1..Len(update.lines) |-> JoinWords(update.lines[i])]
\* PlaceTrade has handled a text message in the TRADE state.
Parsing == cur.kind = "text" /\ (pc = "get_account" \/ replies # <<>>)
               /\ (replies # <<>> => replies[1] \in {"parse error: exception",
                                                     "parse error: Invalid Trade"})
StoredTrade == user_data[cur.user]
ParseReturnedTrade == Parsing /\ replies = <<>> /\ StoredTrade # None
ParseReturnedEmpty == Parsing /\ replies = <<"parse error: Invalid Trade">>
ParseRaised == Parsing /\ replies = <<"parse error: exception">>
FirstLine == IF Lines(cur) = <<>> THEN <<>> ELSE Lines(cur)[1]
Occurs(k) == Contains(Lower(FirstLine), Lower(OrderPhrases[k]))

\* C11: the order type of a parsed trade is the first phrase of Buy Limit,
\* Sell Limit, Buy Stop, Sell Stop, Buy, Sell that occurs in the first line
\* whatever its case; a first line holding "Buy Limit" never yields Buy.
C11_FirstPhraseInOrder ==
    /\ ParseReturnedTrade =>
          \E k \in 1..6 : /\ StoredTrade.OrderType = OrderTypeNames[k]
                          /\ Occurs(k)
                          /\ \A j \in 1..(k - 1) : ~Occurs(j)
    /\ (Parsing /\ Occurs(1)) =>
          (ParseRaised \/ (ParseReturnedTrade /\ StoredTrade.OrderType = "Buy Limit"))
C11_Witness ==
    /\ ParseReturnedTrade /\ Occurs(1) /\ Occurs(5)
    /\ StoredTrade.OrderType = "Buy Limit"
    /\ FirstLine # Lower(FirstLine)

\* A composed message "TYPE SYMBOL / Entry 100 / SL 90 / TP 120", followed by
\* "TP 130" and by further lines or not, TYPE one of the four pending types.
PendingWords ==
    {<<"Buy", "LIMIT">>, <<"sell", "LIMIT">>, <<"Buy", "Stop">>, <<"sell", "Stop">>}
TypeOfWords(w) ==
    CASE w = <<"Buy", "LIMIT">>  -> "Buy Limit"
      [] w = <<"sell", "LIMIT">> -> "Sell Limit"
      [] w = <<"Buy", "Stop">>   -> "Buy Stop"
      [] w = <<"sell", "Stop">>  -> "Sell Stop"
WellFormedPending(lines) ==
    /\ Len(lines) >= 4
    /\ Len(lines[1]) = 3
    /\ SubSeq(lines[1], 1, 2) \in PendingWords
    /\ lines[1][3] \in {"x", "FRA40.cash"}
    /\ Tail(lines) = LabelledTail(Len(lines) - 1)

\* C12: a well-formed signal of a pending type parses to that type with
\* entry, stop-loss and take-profit as its lines 1, 2 and 3 give them; a
\* further TP line gives the second take-profit; no parsed trade has more
\* than two take-profits, however many lines follow.
C12_PendingFields ==
    /\ (Parsing /\ cur.text = 0 /\ WellFormedPending(cur.lines)) =>
          /\ ParseReturnedTrade
          /\ StoredTrade.OrderType = TypeOfWords(SubSeq(cur.lines[1], 1, 2))
          /\ StoredTrade.Entry = Price(100)
          /\ StoredTrade.StopLoss = 90
          /\ StoredTrade.TP = IF Len(cur.lines) = 4 THEN <<120>> ELSE <<120, 130>>
    /\ (ParseReturnedTrade /\ Has(StoredTrade, "TP")) => Len(StoredTrade.TP) <= 2
C12_Witness ==
    /\ ParseReturnedTrade /\ cur.text = 0 /\ WellFormedPending(cur.lines)
    /\ Len(cur.lines) = 6
    /\ StoredTrade.OrderType = "Sell Stop"
    /\ StoredTrade.TP = <<120, 130>>

\* The words float() takes for a number.
NumericLine(line) == line # <<>> /\ line[Len(line)] \in {"100", "90", "120", "130"}
\* The first line holds the phrase of a pending type.
PendingFirstLine == Occurs(1) \/ Occurs(2) \/ Occurs(3) \/ Occurs(4)
\* The Entry, SL or first TP line is missing or has no number for its last
\* token, or a second TP line is there and has none.
Malformed(lines) ==
    \/ Len(lines) < 4
    \/ \E i \in 2..4 : ~NumericLine(lines[i])
    \/ Len(lines) >= 5 /\ ~NumericLine(lines[5])
\* The lines of a composed message: a line feed that ends the text starts no
\* line.
TextLines(lines) ==
    IF lines # <<>> /\ lines[Len(lines)] = <<>>
    THEN SubSeq(lines, 1, Len(lines) - 1) ELSE lines

\* C13: a signal of a pending type whose Entry, SL or first TP line is
\* missing or not numeric, or whose second TP line is not numeric, fails to
\* parse with an error: no trade, whole or partial, is returned or stored
\* for the conversation; a trade that is returned has every field.
C13_AllOrNothing ==
    /\ (Parsing /\ cur.text = 0 /\ PendingFirstLine /\ Malformed(TextLines(cur.lines))) =>
          /\ ParseRaised
          /\ user_data[cur.user] = None
          /\ trade = EmptyDict
          /\ pc = "idle"
    /\ (ParseReturnedTrade /\ PendingFirstLine) =>
          DOMAIN StoredTrade =
              {"OrderType", "Symbol", "Entry", "StopLoss", "TP", "RiskFactor"}
C13_Witness ==
    /\ ParseRaised /\ cur.text = 0 /\ PendingFirstLine
    /\ Len(cur.lines) = 5
    /\ \A i \in 2..4 : NumericLine(cur.lines[i])
    /\ ~NumericLine(cur.lines[5])
    /\ user_data[cur.user] = None

\* C14: a first line holding neither "buy" nor "sell" in any case, the empty
\* input included, fails to parse as an unrecognised order type and gives
\* no trade.
C14_UnrecognisedOrderType ==
    (Parsing /\ ~Occurs(5) /\ ~Occurs(6)) =>
        /\ ParseReturnedEmpty
        /\ user_data[cur.user] = None
        /\ trade = EmptyDict

\* The first line's last word, the symbol of the signal.
NonEmptyWords(line) == SelectSeq(line, LAMBDA w : w # "")
SymbolWord == LET w == NonEmptyWords(cur.lines[1]) IN w[Len(w)]
MarketFirstLine == (Occurs(5) \/ Occurs(6)) /\ ~PendingFirstLine

ExitDone ==
    /\ pc = "idle" /\ ExitFilter(cur)
    /\ "get_positions" \in Range(calls) /\ failed = ""
AllClosed == \A j \in 1..Len(closes) : closes[j].outcome = "orderId"
ClosedIds == [j \in 1..Len(closes) |-> closes[j].id]

\* C16: an exit of the buy side asks to close positions of buy type only,
\* an exit of the sell side positions of sell type only; of 3 buy and 2 sell
\* positions "exit buy" closes the 3, counts 3, and asks to close no sell
\* position.
C16_OnlyRequestedSide ==
    /\ closes # <<>> =>
          LET side == IF exit_type = SIG_EXIT_BUY THEN BUY ELSE SELL
          IN  /\ exit_type \in {SIG_EXIT_BUY, SIG_EXIT_SELL}
              /\ \A j \in 1..Len(closes) :
                    /\ closes[j].type = positions[closes[j].id]
                    /\ closes[j].type = side
    /\ (ExitDone /\ exit_type = SIG_EXIT_BUY /\ AllClosed
            /\ positions = <<BUY, SELL, BUY, SELL, BUY>>) =>
          closed_count = 3 /\ ClosedIds = <<1, 3, 5>>
C16_Witness ==
    /\ ExitDone /\ exit_type = SIG_EXIT_BUY /\ AllClosed
    /\ positions = <<BUY, SELL, BUY, SELL, BUY>>
    /\ closed_count = 3
    /\ replies[Len(replies)] = "closed"

Matching ==
    LET side == IF exit_type = SIG_EXIT_BUY THEN BUY ELSE SELL
    IN  {i \in 1..Len(positions) : positions[i] = side}
Attempts(i) == Cardinality({j \in 1..Len(closes) : closes[j].id = i})
Succeeded == {j \in 1..Len(closes) : closes[j].outcome = "orderId"}

\* C17: every position of the requested side gets exactly one close
\* attempt, whether earlier attempts failed or not; closed_count is the
\* number of attempts that succeeded; when none succeeded the count is 0
\* and the request ends with its usual report, not with an error.
C17_EachMatchingPositionTriedOnce ==
    /\ closed_count = Cardinality(Succeeded)
    /\ closes # <<>> => \A i \in 1..Len(positions) : Attempts(i) <= 1
    /\ ExitDone =>
          /\ LET matching == Matching
              IN  \A i \in 1..Len(positions) :
                      Attempts(i) = IF i \in matching THEN 1 ELSE 0
          /\ replies[Len(replies)] = IF closed_count = 0 THEN "none found to close"
                                     ELSE "closed"
          /\ "connection error" \notin Range(replies)
          /\ handlerError = ""
C17_Witness ==
    /\ ExitDone /\ Len(closes) = 3
    /\ closes[1].outcome = "raised"
    /\ closes[2].outcome = "no orderId"
    /\ closes[3].outcome = "orderId"
    /\ closed_count = 1

(***************************************************************************)
(* Properties of the acquisition, of ConnectMetaTrader and of ExitTrades.  *)
(***************************************************************************)
AcquisitionCalls ==
    <<"get_account", "deploy", "wait_connected", "connect", "wait_synchronized">>
\* The acquisition without its deploy step.
WithoutDeploy == <<"get_account", "wait_connected", "connect", "wait_synchronized">>
AcquisitionNames ==
    {"get_account", "deploy", "wait_connected", "connect", "wait_synchronized"}
\* A request is between its get_account and its return.
AccountStateKnown == initial_state # ""

\* C20: the acquisition calls get_account, deploy, wait_connected, connect
\* and wait_synchronized in this order, deploy exactly when the account's
\* initial state is neither DEPLOYING nor DEPLOYED; no call for the account
\* information, a quote, an order, the positions or a close is made before
\* wait_synchronized has returned.
C20_AcquisitionOrder ==
    /\ calls # <<>> =>
          LET steps == IF Len(calls) >= 2 /\ calls[2] = "deploy"
                       THEN AcquisitionCalls ELSE WithoutDeploy
          IN  \A i \in 1..Len(calls) :
                  IF i <= Len(steps)
                  THEN calls[i] = steps[i]
                  ELSE \* a call that uses the connection
                       /\ calls[i] \notin AcquisitionNames
                       /\ failed \notin AcquisitionNames
    /\ (AccountStateKnown /\ Len(calls) >= 2) =>
          (calls[2] = "deploy" <=> initial_state \notin {"DEPLOYING", "DEPLOYED"})
    /\ pc \in {"get_account_information", "get_symbol_price", "create_order",
               "get_positions", "close_position"} =>
          /\ connection = "synchronized"
          /\ failed = ""
          /\ Len(calls) >= 4 /\ calls[Len(calls)] \notin AcquisitionNames \ {"wait_synchronized"}
C20_Witness ==
    /\ pc = "close_position"
    /\ initial_state = "UNDEPLOYED"
    /\ calls = AcquisitionCalls \o <<"get_positions">>

(***************************************************************************)
(* Properties of PlaceTrade.                                               *)
(***************************************************************************)
ParseFailed == ParseReturnedEmpty \/ ParseRaised
\* The dispatcher takes a text message of the user whose signal failed to
\* parse.
NextTextTaken ==
    /\ ParseFailed
    /\ queue # <<>> /\ Head(queue).kind = "text" /\ Head(queue).user = cur.user
    /\ cur' = Head(queue) /\ queue' = Tail(queue)
\* PlaceTrade has parsed the message cur' anew.
ParsedAfresh ==
    LET r == ParseSignal(TextOf(cur'))
    IN  IF r.raised \/ r.trade = EmptyDict
        THEN /\ replies' \in {<<"parse error: exception">>,
                              <<"parse error: Invalid Trade">>}
             /\ pc' = "idle"
        ELSE /\ replies' = <<>>
             /\ user_data'[cur.user] = r.trade
             /\ pc' = "get_account"

\* C18: when a signal fails to parse no MetaApi call is made for it, the
\* error is the one reply, no trade is stored and the conversation stays in
\* TRADE; the user's next text message is parsed as a new signal.
C18_ParseFailureIsLocal ==
    /\ [](ParseFailed =>
            /\ pc = "idle"
            /\ calls = <<>> /\ orders = <<>>
            /\ Len(replies) = 1
            /\ user_data[cur.user] = None
            /\ conv[cur.user] = "TRADE"
            /\ handlerError = "")
    /\ [][NextTextTaken => ParsedAfresh]_vars
C18_Witness ==
    /\ ParseRaised /\ cur.text > 0
    /\ conv[cur.user] = "TRADE"
    /\ queue # <<>> /\ Head(queue).kind = "text" /\ Head(queue).user = cur.user
    /\ ~ParseSignal(TextOf(Head(queue))).raised

\* PlaceTrade has called ConnectMetaTrader for the signal cur and is over.
PlaceTradeOver ==
    /\ pc = "idle" /\ cur.kind = "text"
    /\ calls # <<>> /\ "processing" \notin Range(replies)

\* C19: whatever the connection attempt of a parsed signal came to (a failed
\* acquisition, a failed quote, a failed order, success), PlaceTrade returns
\* ConversationHandler.END and no exception leaves it.
C19_PlaceTradeReturnsEnd ==
    PlaceTradeOver => (handlerError = "" /\ conv[cur.user] = "END")

(***************************************************************************)
(* Further properties of ParseSignal.                                      *)
(***************************************************************************)
\* C21: a signal whose first line holds Buy or Sell and none of the Limit
\* and Stop phrases parses to a trade whose entry is NOW and that has no
\* stop loss and no take-profit, whatever lines follow the first and however
\* many.
C21_MarketParsesToNow ==
    (Parsing /\ MarketFirstLine) =>
        /\ ParseReturnedTrade
        /\ StoredTrade.Entry = NOW
        /\ ~Has(StoredTrade, "StopLoss")
        /\ ~Has(StoredTrade, "TP")

\* The symbol of the signal is one of SYMBOLS, in whatever case it is
\* written.
AllowListed(word) == \E sym \in SYMBOLS : Lower(Spell(word)) = Lower(sym)
AllowListedSymbol(word) == CHOOSE sym \in SYMBOLS : Lower(Spell(word)) = Lower(sym)

\* C22: a signal whose first line ends with a symbol of SYMBOLS, in any
\* case, parses to a trade with that symbol; INDEX takes the place only of
\* a symbol that SYMBOLS does not hold.
C22_AllowListedSymbolKept ==
    (ParseReturnedTrade /\ cur.text = 0) =>
        IF AllowListed(SymbolWord)
        THEN StoredTrade.Symbol = AllowListedSymbol(SymbolWord)
        ELSE StoredTrade.Symbol = INDEX

(***************************************************************************)
(* Termination of a request.                                               *)
(***************************************************************************)
Acquiring == pc \in AcquisitionSteps \cup ExitAcquisitionSteps
\* wait_connected or wait_synchronized gave up.
WaitTimedOut == failed \in {"wait_connected", "wait_synchronized"}

TradeInformationComputed ==
    /\ replies # <<>>
    /\ replies[Len(replies)] = "preview"
\* The trade ConnectMetaTrader passed to GetTradeInformation: the parsed
\* signal, a market order resolved from the quote.
TradePassed ==
    LET signal_trade == ParseSignal(TextOf(cur)).trade
    IN  IF signal_trade.Entry = NOW THEN Resolve(signal_trade, price) ELSE signal_trade

OrderCalls ==
    {"create_market_buy_order", "create_limit_buy_order", "create_stop_buy_order",
     "create_market_sell_order", "create_limit_sell_order", "create_stop_sell_order"}
\* ConnectMetaTrader has made a create order call.
OrderRequested == \E i \in DOMAIN calls : calls[i] \in OrderCalls
\* The position of the first create order call in the log of calls.
FirstOrderCall == CHOOSE i \in DOMAIN calls : calls[i] \in OrderCalls /\
                      \A j \in 1..(i - 1) : calls[j] \notin OrderCalls
\* The calls the request made before its first order.
BeforeFirstOrder == SubSeq(calls, 1, FirstOrderCall - 1)

\* C25: with enterTrade false ConnectMetaTrader makes no create order call;
\* an order is requested only with enterTrade true, after the acquisition,
\* the fetch of the account information and, for a market order, of the
\* price, and the computation of the trade information, none of which failed.
C25_OrdersOnlyWhenEntering ==
    /\ ~enterTrade => ~OrderRequested /\ orders = <<>>
    /\ orders # <<>> => OrderRequested
    /\ OrderRequested =>
          /\ enterTrade
          /\ failed = ""
          /\ BeforeFirstOrder \in
                {pre \o post : pre \in {AcquisitionCalls, WithoutDeploy},
                               post \in {IF ParseSignal(TextOf(cur)).trade.Entry = NOW
                                         THEN <<"get_account_information", "get_symbol_price">>
                                         ELSE <<"get_account_information">>}}
          /\ "preview" \in Range(replies)
          /\ trade.PositionSize = LOT_SIZE
\* The preview of a trade that is not entered is over.
C25_Witness ==
    /\ ~enterTrade
    /\ pc = "return"
    /\ "preview" \in Range(replies)
    /\ orders = <<>>

(***************************************************************************)
(* The stored trade.                                                       *)
(***************************************************************************)
\* ConnectMetaTrader is running for PlaceTrade, or has returned to it.
InPlaceTrade ==
    pc \in AcquisitionSteps \cup
           {"get_account_information", "get_symbol_price", "create_order", "return"}

\* C26: between two handler invocations no user has a stored trade, and the
\* trade PlaceTrade hands to ConnectMetaTrader is the one it has just parsed
\* from the message and stored, never one stored by an earlier message.
C26_NoStoredTradeBetweenHandlers ==
    /\ pc = "idle" => \A u \in Users : user_data[u] = None
    /\ InPlaceTrade => parsed /\ user_data[cur.user] = trade
\* PlaceTrade is over after a connection attempt that placed an order, and
\* the next message is waiting.
C26_Witness ==
    /\ pc = "idle"
    /\ orders # <<>>
    /\ user_data[TELEGRAM_USER] = None
    /\ queue # <<>> /\ Head(queue).kind = "text"

(***************************************************************************)
(* Authorization.                                                          *)
(***************************************************************************)
\* C27: a MetaApi call, and so an order or a close request, is made only
\* while the message of the authorized user is handled: only that user's
\* conversation is ever in the state TRADE, and only that user's message
\* starts ConnectMetaTrader or ExitTrades.
C27_BrokerCallsOnlyForAuthorizedUser ==
    /\ \A u \in Users : conv[u] = "TRADE" => u = TELEGRAM_USER
    /\ pc # "idle" => cur.user = TELEGRAM_USER
    /\ (calls # <<>> \/ orders # <<>> \/ closes # <<>>) => cur.user = TELEGRAM_USER
\* The exit command of another user was refused after a request of the
\* authorized user went through.
C27_Witness ==
    /\ pc = "idle"
    /\ cur.user # TELEGRAM_USER
    /\ ExitFilter(cur)
    /\ replies = <<"not authorized">>
    /\ calls = <<>> /\ closes = <<>>

=============================================================================
